---- MODULE Spec2Model ----
(***************************************************************************)
(* Conversation persistence and orchestration layer of app.py:             *)
(* the on-disk store (db/conversations/<id>.json and db/current.json),     *)
(* the session state (st.session_state) and the handlers that work on them.*)
(***************************************************************************)
EXTENDS Integers, Sequences, FiniteSets, TLC

VARIABLES
    store,          \* the db/ directory: conversation files and current.json
    session,        \* st.session_state: the active conversation snapshot
    error_message,  \* st.session_state.error_message (<< >>: key not set)
    pc,             \* "idle", or "awaiting" while the model call is pending
    last,           \* history: the handler that ran last and how it ended
    allocated,      \* history: every id that ever named a conversation file
    created,        \* history: the id create_new_conversation returned last (0: none)
    cost,           \* the sidebar's cost panel: its input messages and the totals shown
    uploaded_file_content,  \* st.session_state.uploaded_file_content (<< >>: key not set)
    call            \* the request handed to the model client and what the call did

vars == <<store, session, error_message, pc, last, allocated, created, cost,
          uploaded_file_content, call>>

(* ------------------------------ bounds --------------------------------- *)

\* Largest conversation id the model lets create_new_conversation allocate.
MaxId == 3

\* Largest number of messages a conversation may hold in the model.
MaxMsgs == 4

\* Longest message list handed to the cost fold.
MaxCostLen == 3

Ids == 1..MaxId

(* --------------------------- values of the program --------------------- *)

DEFAULT_PERSONALITY == "DEFAULT_PERSONALITY"

\* Personality texts the user types into the sidebar text area.
PersonalityInputs == {"custom personality"}

\* A conversation name: a text, followed by a number when the name is the
\* formatted f"Konwersacja {id}".
Name(text, num) == [text |-> text, num |-> num]

NoName == Name("", 0)

DefaultName(id) == Name("Konwersacja", id)

FirstName == Name("Pierwsza konwersacja", 0)

\* Names the user types into the name input.
NameInputs == {Name("renamed", 0)}

\* A Python dict from keys to numbers; {} is the function with empty domain.
EmptyDict == [k \in {} |-> 0]

Get(d, k, default) == IF k \in DOMAIN d THEN d[k] ELSE default

\* A message dict; hasUsage tells whether the key "usage" is in it.
Message(role, content, hasUsage, usage) ==
    [role |-> role, content |-> content, hasUsage |-> hasUsage, usage |-> usage]

Conversation(id, name, personality, messages) ==
    [id |-> id, name |-> name, chatbot_personality |-> personality, messages |-> messages]

Blank == Conversation(0, NoName, "", << >>)

(* A file db/conversations/<id>.json: absent, present with a decodable     *)
(* conversation, or present with content json.load cannot decode (what an  *)
(* interrupted open(.., "w") + json.dump leaves behind).                   *)
AbsentFile == [st |-> "absent", data |-> Blank]

CorruptFile == [st |-> "corrupt", data |-> Blank]

OkFile(conversation) == [st |-> "ok", data |-> conversation]

\* db/current.json: absent, undecodable, or {"current_conversation_id": id}.
NoPointer == 0

CorruptPointer == -1

EmptyStore == [db |-> FALSE, files |-> [i \in Ids |-> AbsentFile], current |-> NoPointer]

\* st.session_state before load_current_conversation has run.
NoSession ==
    [loaded |-> FALSE, conversation_id |-> 0, conversation_name |-> NoName,
     chatbot_personality |-> DEFAULT_PERSONALITY, messages |-> << >>]

Max(S) == CHOOSE m \in S : \A x \in S : x <= m

SeqLast(s) == s[Len(s)]

(* ------------------------- primitive file effects ---------------------- *)

(* open(path, "w") truncates the file at once and json.dump then writes the *)
(* text: a write passes through a state in which the file exists and holds *)
(* no decodable record.  A handler is modelled by the sequence of store     *)
(* states it passes through; the last one is the store when it returns.     *)
PutSteps(s, id, conversation) ==
    << [s EXCEPT !.files[id] = CorruptFile],
       [s EXCEPT !.files[id] = OkFile(conversation)] >>

\* A variant that never writes current.json.
PtrStepsSkipped(s, id) == << s, s >>

PtrSteps(s, id) ==
    << [s EXCEPT !.current = CorruptPointer],
       [s EXCEPT !.current = id] >>

Unlink(s, id) == [s EXCEPT !.files[id] = AbsentFile]

\* The store states strictly inside a handler's run (not its final one).
Inner(trace) == {trace[i] : i \in 1..(Len(trace) - 1)}

(* ------------------------------ helpers -------------------------------- *)

ensure_db_structure(s) == IF ~s.db THEN [s EXCEPT !.db = TRUE] ELSE s

load_conversation_to_state(conversation) ==
    [loaded |-> TRUE,
     conversation_id |-> conversation.id,
     conversation_name |-> conversation.name,
     chatbot_personality |-> conversation.chatbot_personality,
     messages |-> conversation.messages]

\* DB_CONVERSATIONS_PATH.glob("*.json") with int(file_path.stem)
Stems(s) == {i \in Ids : s.files[i].st # "absent"}

\* Files json.load decodes.
Readable(s) == {i \in Ids : s.files[i].st = "ok"}

\* A variant that counts the files instead of taking the largest id.
NextIdByCount(s) == Cardinality(Stems(s)) + 1

NextId(s) == Max(Stems(s) \cup {0}) + 1

\* sorted(.., key=id, reverse=True) of the entries built from a set of files
RECURSIVE SortedDesc(_, _)
SortedDesc(s, S) ==
    IF S = {} THEN << >>
    ELSE LET m == CHOOSE i \in S : \A j \in S : s.files[j].data.id <= s.files[i].data.id
         IN  << [id |-> s.files[m].data.id,
                 name |-> s.files[m].data.name,
                 message_count |-> Len(s.files[m].data.messages)] >>
             \o SortedDesc(s, S \ {m})

Reverse(seq) == [i \in 1..Len(seq) |-> seq[Len(seq) + 1 - i]]

\* A variant that sorts without reverse=True.
list_conversations_ascending(s) == Reverse(SortedDesc(s, Readable(s)))

list_conversations(s) == SortedDesc(s, Readable(s))

(* ------------------------------ handlers ------------------------------- *)

(* A handler's run: the store states it passes through (the last one is the *)
(* store when it returns or raises), the session state it leaves, whether   *)
(* an exception left it, and the id create_new_conversation allocated in it *)
(* (0: none).                                                               *)
Run(trace, sess, raised, new) ==
    [trace |-> trace, session |-> sess, raised |-> raised, new |-> new]

SessionConversation(sess) ==
    Conversation(sess.conversation_id, sess.conversation_name,
                 sess.chatbot_personality, sess.messages)

save_conversation(s, sess) ==
    Run(PutSteps(s, sess.conversation_id, SessionConversation(sess)), sess, FALSE, 0)

\* A variant that names the conversation as the first run does.
NewConversationFirstName(new_id) == Conversation(new_id, FirstName, DEFAULT_PERSONALITY, << >>)

NewConversation(new_id) == Conversation(new_id, DefaultName(new_id), DEFAULT_PERSONALITY, << >>)

create_new_conversation(s) ==
    LET s0 == ensure_db_structure(s)
        new_id == NextId(s0)
        conversation == NewConversation(new_id)
        t1 == PutSteps(s0, new_id, conversation)
        t2 == PtrSteps(SeqLast(t1), new_id)
    IN  Run(t1 \o t2,
            [load_conversation_to_state(conversation)
                EXCEPT !.chatbot_personality = DEFAULT_PERSONALITY],
            FALSE, new_id)

\* A variant that writes the pointer and leaves the session state as it was.
switch_conversation_pointer_only(s, sess, conversation_id) ==
    IF s.files[conversation_id].st = "ok"
    THEN Run(PtrSteps(s, conversation_id), sess, FALSE, 0)
    ELSE Run(<<s>>, sess, s.files[conversation_id].st = "corrupt", 0)

switch_conversation(s, sess, conversation_id) ==
    CASE s.files[conversation_id].st = "absent" -> Run(<<s>>, sess, FALSE, 0)
      [] s.files[conversation_id].st = "corrupt" -> Run(<<s>>, sess, TRUE, 0)
      [] OTHER ->
            Run(PtrSteps(s, conversation_id),
                load_conversation_to_state(s.files[conversation_id].data), FALSE, 0)

\* A variant that removes the file and leaves the current conversation alone.
delete_conversation_unlink_only(s, sess, conversation_id) ==
    Run(<< IF s.files[conversation_id].st # "absent"
           THEN Unlink(s, conversation_id) ELSE s >>, sess, FALSE, 0)

delete_conversation(s, sess, conversation_id) ==
    LET s1 == IF s.files[conversation_id].st # "absent"
              THEN Unlink(s, conversation_id) ELSE s
    IN  IF sess.loaded /\ conversation_id = sess.conversation_id
        THEN LET remaining == list_conversations(s1)
                 r == IF remaining # << >>
                      THEN switch_conversation(s1, sess, remaining[1].id)
                      ELSE create_new_conversation(s1)
             IN  Run(<<s1>> \o r.trace, r.session, r.raised, r.new)
        ELSE Run(<<s1>>, sess, FALSE, 0)

FirstConversation == Conversation(1, FirstName, DEFAULT_PERSONALITY, << >>)

load_current_conversation(s) ==
    LET s0 == ensure_db_structure(s) IN
    CASE s0.current = NoPointer ->
            LET t1 == PutSteps(s0, 1, FirstConversation)
                t2 == PtrSteps(SeqLast(t1), 1)
            IN  Run(<<s0>> \o t1 \o t2, load_conversation_to_state(FirstConversation), FALSE, 0)
      [] s0.current = CorruptPointer -> Run(<<s0>>, NoSession, TRUE, 0)
      [] OTHER ->
            LET conversation_id == s0.current IN
            CASE s0.files[conversation_id].st = "ok" ->
                    Run(<<s0>>, load_conversation_to_state(s0.files[conversation_id].data), FALSE, 0)
              [] s0.files[conversation_id].st = "corrupt" -> Run(<<s0>>, NoSession, TRUE, 0)
              [] OTHER ->
                    Run(<<s0>>,
                        load_conversation_to_state(
                            Conversation(conversation_id, DefaultName(conversation_id),
                                         DEFAULT_PERSONALITY, << >>)),
                        FALSE, 0)

(* -------------------------- cost accounting --------------------------- *)

\* MODEL_PRICING["gpt-5-nano"], in units of 1e-8 USD per token.
Pricing == [input_tokens |-> 5, output_tokens |-> 40]

\* The price table, in units of 1e-8 USD per token.
MODEL_PRICING ==
    [model \in {"gpt-5-nano", "gpt-5-mini", "gpt-5"} |->
        CASE model = "gpt-5-nano" -> Pricing
          [] model = "gpt-5-mini" -> [input_tokens |-> 25, output_tokens |-> 200]
          [] model = "gpt-5" -> [input_tokens |-> 125, output_tokens |-> 1000]]

\* A variant that assigns where the loop accumulates: the totals are those
\* of the last message.
calculate_conversation_cost_last_only(messages, pricing) ==
    IF messages = << >> THEN [total_cost |-> 0, total_time |-> 0]
    ELSE LET message == messages[Len(messages)]
             usage == message.usage
         IN  IF message.hasUsage
             THEN [total_cost |-> Get(usage, "prompt_tokens", 0) * pricing.input_tokens
                                   + Get(usage, "completion_tokens", 0) * pricing.output_tokens,
                   total_time |-> Get(usage, "response_time", 0)]
             ELSE [total_cost |-> 0, total_time |-> 0]

RECURSIVE calculate_conversation_cost(_, _)
calculate_conversation_cost(messages, pricing) ==
    IF messages = << >> THEN [total_cost |-> 0, total_time |-> 0]
    ELSE LET rest == calculate_conversation_cost(SubSeq(messages, 1, Len(messages) - 1), pricing)
             message == messages[Len(messages)]
             usage == message.usage
         IN  IF message.hasUsage
             THEN [total_cost |-> rest.total_cost
                                   + Get(usage, "prompt_tokens", 0) * pricing.input_tokens
                                   + Get(usage, "completion_tokens", 0) * pricing.output_tokens,
                   total_time |-> rest.total_time + Get(usage, "response_time", 0)]
             ELSE rest

\* The cost panel before the sidebar was rendered.
NoCost ==
    [messages |-> << >>, selected_model |-> "gpt-5-nano", rendered |-> FALSE,
     total_cost |-> 0, total_time |-> 0]

(* ------------------------------ chat turn ------------------------------ *)

\* Texts the user types into the chat input.
UserInputs == {"hello"}

TRUNCATION_NOTICE == "TRUNCATION_NOTICE"

\* What chat.completions.create does: returns a response or raises.
\* hasContent: choice.message.content is a text (FALSE: it is None).
Response(finish_reason, hasUsage) ==
    [ok |-> TRUE, hasContent |-> TRUE, content |-> <<"answer">>,
     finish_reason |-> finish_reason,
     hasUsage |-> hasUsage, prompt_tokens |-> 3, completion_tokens |-> 2,
     total_tokens |-> 5, elapsed |-> 1, error |-> ""]

\* A response whose message has no content.
ResponseNoContent(finish_reason) ==
    [Response(finish_reason, TRUE) EXCEPT !.hasContent = FALSE, !.content = << >>]

Failure(error) ==
    [ok |-> FALSE, hasContent |-> FALSE, content |-> << >>, finish_reason |-> "",
     hasUsage |-> FALSE,
     prompt_tokens |-> 0, completion_tokens |-> 0, total_tokens |-> 0, elapsed |-> 0,
     error |-> error]

FinishReasons == {"stop", "length", "content_filter"}

ModelOutcomes ==
    {Response(f, u) : f \in FinishReasons, u \in BOOLEAN}
        \cup {ResponseNoContent("length")}
        \cup {Failure("network error")}

\* A variant whose except branch reports the usage of a successful call and
\* keeps no error message.
chatbot_reply_failure_as_success(outcome, old_error) ==
    [message |->
        Message("assistant",
                IF outcome.ok THEN outcome.content
                ELSE <<"ERROR_TEMPLATE_HEAD", outcome.error, "ERROR_TEMPLATE_TAIL">>,
                TRUE,
                [prompt_tokens |-> 3, completion_tokens |-> 2,
                 total_tokens |-> 5, response_time |-> 1]),
     error_message |-> old_error]

\* A variant that appends the notice whenever the model did not stop by itself.
chatbot_reply_notice_unless_stop(outcome, old_error) ==
    IF outcome.ok
    THEN [message |->
            Message("assistant",
                    IF outcome.finish_reason # "stop"
                    THEN outcome.content \o <<TRUNCATION_NOTICE>>
                    ELSE outcome.content,
                    TRUE,
                    IF outcome.hasUsage
                    THEN [prompt_tokens |-> outcome.prompt_tokens,
                          completion_tokens |-> outcome.completion_tokens,
                          total_tokens |-> outcome.total_tokens,
                          response_time |-> outcome.elapsed]
                    ELSE EmptyDict),
          error_message |-> old_error]
    ELSE [message |->
            Message("assistant", <<"ERROR_TEMPLATE_HEAD", outcome.error, "ERROR_TEMPLATE_TAIL">>,
                    TRUE, EmptyDict),
          error_message |-> <<"API_ERROR_PREFIX", outcome.error>>]

\* The assistant message chatbot_reply returns and the error_message it leaves.
\* content = choice.message.content or "": a missing content is the empty text.
chatbot_reply(outcome, old_error) ==
    IF outcome.ok
    THEN [message |->
            Message("assistant",
                    LET content == IF outcome.hasContent THEN outcome.content ELSE << >>
                    IN  IF outcome.finish_reason = "length"
                        THEN content \o <<TRUNCATION_NOTICE>>
                        ELSE content,
                    TRUE,
                    IF outcome.hasUsage
                    THEN [prompt_tokens |-> outcome.prompt_tokens,
                          completion_tokens |-> outcome.completion_tokens,
                          total_tokens |-> outcome.total_tokens,
                          response_time |-> outcome.elapsed]
                    ELSE EmptyDict),
          error_message |-> old_error]
    ELSE [message |->
            Message("assistant", <<"ERROR_TEMPLATE_HEAD", outcome.error, "ERROR_TEMPLATE_TAIL">>,
                    TRUE, EmptyDict),
          error_message |-> <<"API_ERROR_PREFIX", outcome.error>>]

UserMessage(user_input) == Message("user", <<user_input>>, FALSE, EmptyDict)

\* Texts process_uploaded_file extracts from an uploaded document.
DocumentInputs == {<<"document text">>}

DOCUMENT_PREAMBLE == "DOCUMENT_PREAMBLE"

\* memory=messages[-20:]
HISTORY_WINDOW == 20

\* messages[-n:]
LastN(messages, n) ==
    IF Len(messages) <= n THEN messages
    ELSE SubSeq(messages, Len(messages) - n + 1, Len(messages))

\* The message list chatbot_reply hands to chat.completions.create.
chatbot_request(user_prompt, memory, file_content, personality) ==
    LET system_content == IF file_content # << >>
                          THEN <<personality, DOCUMENT_PREAMBLE>> \o file_content
                          ELSE <<personality>>
    IN  <<[role |-> "system", content |-> system_content]>>
        \o [i \in DOMAIN memory |-> [role |-> memory[i].role, content |-> memory[i].content]]
        \o <<[role |-> "user", content |-> <<user_prompt>>]>>

\* No call was issued in this session.
NoCall == [request |-> << >>, outcome |-> Failure("")]

(* ------------------------------- actions ------------------------------- *)

\* active: the handler's id was the id of the active conversation when it began.
Last(op, id, outcome, new) ==
    [op |-> op, id |-> id, outcome |-> outcome, new |-> new,
     active |-> session.loaded /\ id = session.conversation_id]

\* The handler ran to its end (returned, reran the script, or raised).
Completes(r, op, id) ==
    /\ store' = SeqLast(r.trace)
    /\ session' = r.session
    /\ last' = Last(op, id, IF r.raised THEN "raised" ELSE "ok", r.new)
    /\ allocated' = allocated \cup Stems(SeqLast(r.trace))
    /\ created' = IF r.new # 0 THEN r.new ELSE created
    /\ UNCHANGED <<cost, uploaded_file_content>>

\* The process stopped inside the handler: the store keeps what was written
\* so far and the session state is gone.
Interrupted(r, op, id) ==
    \E s \in Inner(r.trace) :
        /\ store' = s
        /\ session' = NoSession
        /\ error_message' = << >>
        /\ pc' = "idle"
        /\ last' = Last(op, id, "interrupted", 0)
        /\ allocated' = allocated \cup Stems(s)
        /\ uploaded_file_content' = << >>
        /\ call' = NoCall
        /\ UNCHANGED <<created, cost>>

\* main(): if "conversation_id" not in st.session_state
Bootstrap ==
    /\ ~session.loaded
    /\ pc = "idle"
    /\ \/ Completes(load_current_conversation(store), "bootstrap", 0) /\ UNCHANGED <<error_message, pc, call>>
       \/ Interrupted(load_current_conversation(store), "bootstrap", 0)

\* The "Nowa konwersacja" button (ids above MaxId are outside the model).
CreateNew ==
    /\ session.loaded
    /\ pc = "idle"
    /\ NextId(store) <= MaxId
    /\ \/ Completes(create_new_conversation(store), "create_new", NextId(store)) /\ UNCHANGED <<error_message, pc, call>>
       \/ Interrupted(create_new_conversation(store), "create_new", NextId(store))

\* switch_conversation(id), for every id (the selectbox offers the listed ones).
Switch(id) ==
    /\ session.loaded
    /\ pc = "idle"
    /\ \/ Completes(switch_conversation(store, session, id), "switch", id) /\ UNCHANGED <<error_message, pc, call>>
       \/ Interrupted(switch_conversation(store, session, id), "switch", id)

\* delete_conversation(id), for every id (the button passes the active one).
\* The guard keeps a nested create_new_conversation within MaxId.
Delete(id) ==
    /\ session.loaded
    /\ pc = "idle"
    /\ \/ id # session.conversation_id
       \/ list_conversations(Unlink(store, id)) # << >>
       \/ NextId(Unlink(store, id)) <= MaxId
    /\ \/ Completes(delete_conversation(store, session, id), "delete", id) /\ UNCHANGED <<error_message, pc, call>>
       \/ Interrupted(delete_conversation(store, session, id), "delete", id)

\* The name input: if new_name != conversation_name: set it and save.
Rename(new_name) ==
    /\ session.loaded
    /\ pc = "idle"
    /\ new_name # session.conversation_name
    /\ LET sess == [session EXCEPT !.conversation_name = new_name]
           r == save_conversation(store, sess)
       IN  \/ Completes(r, "rename", session.conversation_id) /\ UNCHANGED <<error_message, pc, call>>
           \/ Interrupted(r, "rename", session.conversation_id)

\* The personality text area: assigned to the session state, nothing else.
SetPersonality(text) ==
    /\ session.loaded
    /\ pc = "idle"
    /\ text # session.chatbot_personality
    /\ session' = [session EXCEPT !.chatbot_personality = text]
    /\ last' = Last("set_personality", session.conversation_id, "ok", 0)
    /\ UNCHANGED <<store, error_message, pc, allocated, created, cost, uploaded_file_content, call>>

\* The browser session ends (or the process is stopped between handlers).
SessionEnd ==
    /\ session.loaded
    /\ session' = NoSession
    /\ error_message' = << >>
    /\ pc' = "idle"
    /\ last' = Last("session_end", 0, "ok", 0)
    /\ uploaded_file_content' = << >>
    /\ call' = NoCall
    /\ UNCHANGED <<store, allocated, created, cost>>

\* render_main_chat, up to the model call: the user message is appended to
\* the message list of the session state and the call is issued.
TurnStart(user_input) ==
    /\ session.loaded
    /\ pc = "idle"
    /\ Len(session.messages) + 2 <= MaxMsgs
    /\ session' = [session EXCEPT !.messages = Append(@, UserMessage(user_input))]
    /\ call' = [request |-> chatbot_request(user_input,
                                             LastN(session'.messages, HISTORY_WINDOW),
                                             uploaded_file_content,
                                             session.chatbot_personality),
                outcome |-> Failure("")]
    /\ pc' = "awaiting"
    /\ last' = Last("turn_start", session.conversation_id, "ok", 0)
    /\ UNCHANGED <<store, error_message, allocated, created, cost, uploaded_file_content>>

\* render_main_chat, from the end of the model call: the reply is appended
\* and the conversation saved.
TurnEnd(outcome) ==
    /\ pc = "awaiting"
    /\ LET reply == chatbot_reply(outcome, error_message)
           sess == [session EXCEPT !.messages = Append(@, reply.message)]
           r == save_conversation(store, sess)
       IN  \/ /\ Completes(r, IF outcome.ok THEN "turn" ELSE "turn_failed",
                           session.conversation_id)
              /\ error_message' = reply.error_message
              /\ pc' = "idle"
              /\ call' = [call EXCEPT !.outcome = outcome]
           \/ Interrupted(r, "turn", session.conversation_id)

\* The "Zamknij błąd" button.
DismissError ==
    /\ session.loaded
    /\ pc = "idle"
    /\ error_message # << >>
    /\ error_message' = << >>
    /\ last' = Last("dismiss_error", 0, "ok", 0)
    /\ UNCHANGED <<store, session, pc, allocated, created, cost, uploaded_file_content, call>>

\* The file uploader: the text of the document is kept in the session state.
UploadFile(file_content) ==
    /\ session.loaded
    /\ pc = "idle"
    /\ uploaded_file_content' = file_content
    /\ last' = Last("upload", 0, "ok", 0)
    /\ UNCHANGED <<store, session, error_message, pc, allocated, created, cost, call>>

Init ==
    /\ store = EmptyStore
    /\ session = NoSession
    /\ error_message = << >>
    /\ pc = "idle"
    /\ last = Last("init", 0, "ok", 0)
    /\ allocated = {}
    /\ created = 0
    /\ cost = NoCost
    /\ uploaded_file_content = << >>
    /\ call = NoCall

Next ==
    \/ Bootstrap
    \/ CreateNew
    \/ \E id \in Ids : Switch(id)
    \/ \E id \in Ids : Delete(id)
    \/ \E n \in NameInputs : Rename(n)
    \/ \E p \in PersonalityInputs \cup {DEFAULT_PERSONALITY} : SetPersonality(p)
    \/ SessionEnd

\* The conversation lifecycle: the handlers of the conversation manager.
Spec == Init /\ [][Next]_vars

NextChat ==
    \/ Bootstrap
    \/ \E id \in Ids : Delete(id)
    \/ \E p \in PersonalityInputs \cup {DEFAULT_PERSONALITY} : SetPersonality(p)
    \/ \E d \in DocumentInputs : UploadFile(d)
    \/ \E u \in UserInputs : TurnStart(u)
    \/ \E o \in ModelOutcomes : TurnEnd(o)
    \/ DismissError
    \/ SessionEnd

\* The chat: user turns, with the one conversation that exists at a time.
SpecChat == Init /\ [][NextChat]_vars

\* An assistant message whose call reported its usage.
UsageMessage(prompt_tokens, completion_tokens, response_time) ==
    Message("assistant", <<"answer">>, TRUE,
            [prompt_tokens |-> prompt_tokens, completion_tokens |-> completion_tokens,
             total_tokens |-> prompt_tokens + completion_tokens,
             response_time |-> response_time])

\* The messages the fold meets: a user message (no usage key), the reply of
\* a failed call (empty usage) and replies with usage.
CostMessages ==
    {UserMessage("hello"),
     Message("assistant", <<"ERROR_TEMPLATE_HEAD", "network error", "ERROR_TEMPLATE_TAIL">>,
             TRUE, EmptyDict),
     UsageMessage(100, 50, 2),
     UsageMessage(10, 5, 1)}

CostInputs == UNION {[1..n -> CostMessages] : n \in 0..MaxCostLen}

\* render_sidebar: the model is selected, its prices are looked up and the
\* totals of the message list are computed and shown.
RenderSidebar(model) ==
    /\ LET totals == calculate_conversation_cost(cost.messages, MODEL_PRICING[model])
       IN  cost' = [cost EXCEPT !.selected_model = model, !.rendered = TRUE,
                                !.total_cost = totals.total_cost,
                                !.total_time = totals.total_time]
    /\ UNCHANGED <<store, session, error_message, pc, last, allocated, created,
                   uploaded_file_content, call>>

InitCost ==
    /\ store = EmptyStore
    /\ session = NoSession
    /\ error_message = << >>
    /\ pc = "idle"
    /\ last = Last("init", 0, "ok", 0)
    /\ allocated = {}
    /\ created = 0
    /\ uploaded_file_content = << >>
    /\ call = NoCall
    /\ \E messages \in CostInputs : cost = [NoCost EXCEPT !.messages = messages]

NextCost == \E model \in DOMAIN MODEL_PRICING : RenderSidebar(model)

\* The cost panel: the fold applied to every bounded message list under
\* every entry of the price table.
SpecCost == InitCost /\ [][NextCost]_vars

(* ======================= properties of the lifecycle ==================== *)

\* The active snapshot and the pointer name one conversation whose record is
\* in the store and equals the snapshot's source.
ActiveIs(s, sess, id) ==
    /\ s.current = id
    /\ sess.loaded
    /\ sess.conversation_id = id
    /\ id \in Ids
    /\ s.files[id].st = "ok"
    /\ s.files[id].data.id = id

\* The store create_new_conversation saw when the step's handler called it.
StoreAtCreate == IF last'.op = "delete" THEN Unlink(store, last'.id) ELSE store

(* C1, as the spec states it: the ids create_new() returns are strictly     *)
(* increasing and an id that was ever allocated is never allocated again,   *)
(* also when conversations were deleted in between.                         *)
C1_NoReuse ==
    [][(last'.new # 0 /\ last'.outcome = "ok")
        => (last'.new \notin allocated /\ last'.new > created)]_vars

(* C1, amended: the id create_new() returns is 1 on a store without files   *)
(* and otherwise one more than the largest id that has a file at that       *)
(* moment, so it is larger than every id in the store, no file of the store *)
(* is overwritten, and two creations with nothing in between give           *)
(* increasing ids.                                                          *)
C1_MaxPlusOne ==
    [][(last'.new # 0 /\ last'.outcome = "ok")
        => /\ \A i \in Ids : StoreAtCreate.files[i].st # "absent" => last'.new > i
           /\ last'.new = 1 \/ StoreAtCreate.files[last'.new - 1].st # "absent"
           /\ \A i \in Ids \ {last'.new} : store'.files[i] = StoreAtCreate.files[i]
           /\ (last.op = "create_new" /\ last.outcome = "ok" /\ last'.op = "create_new")
                => last'.new > last.new]_vars

\* create_new() has run after a conversation was deleted.
C1_Witness ==
    /\ last.op = "create_new"
    /\ last.outcome = "ok"
    /\ \E i \in allocated : i # last.new /\ store.files[i].st = "absent"

(* C2: when delete(id) of the active conversation has returned, the pointer *)
(* and the active snapshot name one conversation whose record is readable   *)
(* in the store, also when the deleted one was the last record.             *)
C2_DeleteActiveLeavesCurrent ==
    (last.op = "delete" /\ last.active /\ last.outcome # "interrupted")
        => /\ last.outcome = "ok"
           /\ ActiveIs(store, session, store.current)
           /\ store.files[store.current].data = SessionConversation(session)

\* The last remaining conversation has been deleted while it was active.
C2_Witness ==
    /\ last.op = "delete"
    /\ last.active
    /\ last.outcome = "ok"
    /\ last.new # 0
    /\ Stems(store) = {last.new}

(* C3, as the spec states it: once bootstrap() has completed, and after     *)
(* every later lifecycle operation, the current pointer references a        *)
(* conversation whose record exists in the store.                           *)
C3_PointerTargetExists ==
    (session.loaded /\ last.outcome = "ok")
        => (store.current \in Ids /\ store.files[store.current].st # "absent")

(* C4, as the spec states it: rename and set_personality are write-through: *)
(* right after either one, the stored record of the active conversation     *)
(* carries the new name / the new personality.                              *)
C4_WriteThrough ==
    (last.op \in {"rename", "set_personality"} /\ last.outcome = "ok")
        => /\ store.files[session.conversation_id].st = "ok"
           /\ store.files[session.conversation_id].data.name = session.conversation_name
           /\ store.files[session.conversation_id].data.chatbot_personality
                = session.chatbot_personality

(* C5, as the spec states it: a write of a conversation record is atomic    *)
(* with respect to interruption: when the process stops inside a handler,   *)
(* no record is left that cannot be read back (each one is the complete     *)
(* previous or the complete new record).                                    *)
C5_AtomicWrite ==
    [][(last'.outcome = "interrupted" /\ last'.op \in {"rename", "create_new", "turn"})
        => \A i \in Ids : store'.files[i].st = "corrupt" => store.files[i].st = "corrupt"]_vars

(* C6, as the spec states it: a corrupt record never makes bootstrap() or   *)
(* switch(id) fail: the operation completes and a valid conversation is     *)
(* active afterwards.                                                       *)
C6_CorruptRecordRecovered ==
    [][(/\ last'.outcome # "interrupted"
        /\ \/ /\ last'.op = "bootstrap"
              /\ store.current \in Ids
              /\ store.files[store.current].st = "corrupt"
           \/ /\ last'.op = "switch"
              /\ store.files[last'.id].st = "corrupt")
        => (last'.outcome = "ok" /\ ActiveIs(store', session', store'.current))]_vars

(* C7: when the active conversation has been deleted, the readable          *)
(* conversation with the highest remaining id is current and active, and    *)
(* when none remains a fresh conversation was created and is current.       *)
C7_DeleteActiveSwitchesToHighest ==
    (last.op = "delete" /\ last.active /\ last.outcome = "ok")
        => IF last.new = 0
           THEN /\ Readable(store) # {}
                /\ store.files[last.id].st = "absent"
                /\ ActiveIs(store, session, Max(Readable(store)))
                /\ SessionConversation(session) = store.files[store.current].data
           ELSE /\ Readable(store) = {last.new}
                /\ store.files[last.new].data
                     = Conversation(last.new, DefaultName(last.new), DEFAULT_PERSONALITY, << >>)
                /\ ActiveIs(store, session, last.new)
                /\ SessionConversation(session) = store.files[last.new].data

\* Conversations 1, 2, 3 existed, 2 was current and has been deleted.
C7_Witness ==
    /\ last.op = "delete"
    /\ last.active
    /\ last.outcome = "ok"
    /\ last.id = 2
    /\ Readable(store) = {1, 3}
    /\ store.current = 3

\* The step is a completed bootstrap() on a store without pointer and records.
BootstrapOnEmptyStore ==
    /\ last'.op = "bootstrap"
    /\ last'.outcome = "ok"
    /\ store.current = NoPointer
    /\ Stems(store) = {}

BootstrapResult(name) ==
    /\ Stems(store') = {1}
    /\ store'.files[1] = OkFile(Conversation(1, name, DEFAULT_PERSONALITY, << >>))
    /\ store'.current = 1
    /\ session' = [loaded |-> TRUE, conversation_id |-> 1, conversation_name |-> name,
                   chatbot_personality |-> DEFAULT_PERSONALITY, messages |-> << >>]

(* C9, as the spec states it: bootstrap() on an empty store ends with       *)
(* exactly one conversation, id 1, no messages, the default personality and *)
(* the default name, the pointer at 1 and that conversation active.         *)
C9_BootstrapDefaultName ==
    [][BootstrapOnEmptyStore => BootstrapResult(DefaultName(1))]_vars

(* C9, amended: the same, except that the conversation is named             *)
(* "Pierwsza konwersacja", not with the default name of id 1.               *)
C9_BootstrapFirstName ==
    [][BootstrapOnEmptyStore => BootstrapResult(FirstName)]_vars

\* bootstrap() has run on the empty store.
C9_Witness ==
    /\ last.op = "bootstrap"
    /\ last.outcome = "ok"
    /\ allocated = {1}
    /\ created = 0
    /\ store.current = 1
    /\ session.conversation_name = FirstName

(* C10: create_new() yields a conversation with the default personality,    *)
(* the default name of its id and no messages, whatever the active          *)
(* conversation was; it is stored, the pointer names it, it is the active   *)
(* snapshot, and no record that was in the store is modified (also when     *)
(* delete() of the last conversation calls it).                             *)
C10_CreateNewDefaults ==
    [][(last'.new # 0 /\ last'.outcome = "ok")
        => LET n == last'.new IN
           /\ n \in Ids
           /\ last'.op = "create_new" => last'.id = n
           /\ StoreAtCreate.files[n].st = "absent"
           /\ store'.files[n]
                = OkFile(Conversation(n, DefaultName(n), DEFAULT_PERSONALITY, << >>))
           /\ \A i \in Ids \ {n} : store'.files[i] = StoreAtCreate.files[i]
           /\ store'.current = n
           /\ session' = [loaded |-> TRUE, conversation_id |-> n,
                          conversation_name |-> DefaultName(n),
                          chatbot_personality |-> DEFAULT_PERSONALITY, messages |-> << >>]]_vars

\* create_new() has run while a record with a customised personality and a
\* user-given name is in the store.
C10_Witness ==
    /\ last.op = "create_new"
    /\ last.outcome = "ok"
    /\ session.chatbot_personality = DEFAULT_PERSONALITY
    /\ \E i \in Ids \ {last.new} :
          /\ store.files[i].st = "ok"
          /\ store.files[i].data.chatbot_personality \in PersonalityInputs

(* ========================= properties of the chat ======================= *)

\* The failure descriptions the model client raises with.
FailureDescriptions == {o.error : o \in {x \in ModelOutcomes : ~x.ok}}

(* C8: a failed model call is contained in the turn: nothing is raised, one *)
(* assistant message with empty usage and the error template around the     *)
(* failure description is returned, the description is kept as the          *)
(* session's last error, and the conversation grows by the user message and *)
(* that one message, which adds nothing to its cost and response time.      *)
C8_FailedCallContained ==
    [][/\ last'.op = "turn_start"
            => /\ \E u \in UserInputs :
                    session'.messages = Append(session.messages, UserMessage(u))
               /\ pc' = "awaiting"
       /\ last'.op = "turn_failed"
            => /\ last.op = "turn_start"
               /\ last'.outcome = "ok"
               /\ pc' = "idle"
               /\ \E e \in FailureDescriptions :
                    /\ session'.messages
                         = Append(session.messages,
                                  [role |-> "assistant",
                                   content |-> <<"ERROR_TEMPLATE_HEAD", e, "ERROR_TEMPLATE_TAIL">>,
                                   hasUsage |-> TRUE,
                                   usage |-> EmptyDict])
                    /\ error_message' = <<"API_ERROR_PREFIX", e>>
               /\ calculate_conversation_cost(session'.messages, Pricing)
                    = calculate_conversation_cost(session.messages, Pricing)
               /\ store'.files[session.conversation_id].data.messages = session'.messages]_vars

\* A model call has failed in a conversation that already has a paid turn.
C8_Witness ==
    /\ last.op = "turn_failed"
    /\ Len(session.messages) = 4
    /\ calculate_conversation_cost(session.messages, Pricing).total_cost > 0
    /\ error_message # << >>

(* ================= properties of the lifecycle, continued =============== *)

(* C11: switch(id) on an id whose record is in the store (a file that       *)
(* decodes) sets the pointer to id and loads that record as the active      *)
(* snapshot, changing no record; switch(id) on an id without a file changes *)
(* neither the pointer, nor a record, nor the active snapshot.  (A file     *)
(* that does not decode is C6's case: nothing changes and the handler       *)
(* raises.)                                                                 *)
C11_SwitchLoadsOrNoOp ==
    [][(last'.op = "switch" /\ last'.outcome # "interrupted")
        => LET id == last'.id IN
           CASE store.files[id].st = "ok" ->
                    /\ last'.outcome = "ok"
                    /\ store'.current = id
                    /\ store'.files = store.files
                    /\ session' = [loaded |-> TRUE,
                                   conversation_id |-> store.files[id].data.id,
                                   conversation_name |-> store.files[id].data.name,
                                   chatbot_personality |-> store.files[id].data.chatbot_personality,
                                   messages |-> store.files[id].data.messages]
                    /\ session'.conversation_id = id
             [] store.files[id].st = "absent" ->
                    /\ last'.outcome = "ok"
                    /\ store' = store
                    /\ session' = session
             [] OTHER ->
                    /\ store' = store
                    /\ session' = session]_vars

\* switch(id) has moved the session to another conversation, whose stored
\* name differs from the default one.
C11_Witness ==
    /\ last.op = "switch"
    /\ last.outcome = "ok"
    /\ ~last.active
    /\ store.current = last.id
    /\ session.conversation_id = last.id
    /\ session.conversation_name \in NameInputs

(* ====================== properties of the cost fold ===================== *)

Permuted(messages, f) == [i \in DOMAIN messages |-> messages[f[i]]]

\* What one message adds to the totals, read off its usage.
Contribution(message, pricing) ==
    IF message.hasUsage /\ DOMAIN message.usage # {}
    THEN [total_cost |-> message.usage.prompt_tokens * pricing.input_tokens
                          + message.usage.completion_tokens * pricing.output_tokens,
          total_time |-> message.usage.response_time]
    ELSE [total_cost |-> 0, total_time |-> 0]

Plus(a, b) ==
    [total_cost |-> a.total_cost + b.total_cost, total_time |-> a.total_time + b.total_time]

(* C12: the totals the fold computes are the same for every permutation of  *)
(* the message list; the totals of a list are the sums of the totals of    *)
(* the two parts of each of its splits; each message with usage adds        *)
(* prompt_tokens * input price + completion_tokens * output price and its   *)
(* response time, a message with no usage or an empty usage adds 0 to both; *)
(* usages 100/50 and 10/5 under the gpt-5-nano prices cost                  *)
(* 110 * 5 + 55 * 40 = 2750 units of 1e-8 USD.                              *)
C12_AdditiveOrderIndependent ==
    cost.rendered =>
        LET messages == cost.messages
            pricing == MODEL_PRICING[cost.selected_model]
            totals == [total_cost |-> cost.total_cost, total_time |-> cost.total_time]
            n == Len(messages)
        IN  /\ \A f \in Permutations(DOMAIN messages) :
                   calculate_conversation_cost(Permuted(messages, f), pricing) = totals
            /\ \A k \in 0..n :
                   Plus(calculate_conversation_cost(SubSeq(messages, 1, k), pricing),
                        calculate_conversation_cost(SubSeq(messages, k + 1, n), pricing))
                       = totals
            /\ \A k \in 1..n :
                   calculate_conversation_cost(SubSeq(messages, 1, k), pricing)
                       = Plus(calculate_conversation_cost(SubSeq(messages, 1, k - 1), pricing),
                              Contribution(messages[k], pricing))
            /\ (\A k \in 1..n : ~messages[k].hasUsage \/ messages[k].usage = EmptyDict)
                   => totals = [total_cost |-> 0, total_time |-> 0]
            /\ (/\ cost.selected_model = "gpt-5-nano"
                /\ \E f \in Permutations(1..2) :
                       messages = Permuted(<<UsageMessage(100, 50, 2), UsageMessage(10, 5, 1)>>, f))
                   => cost.total_cost = 2750

\* The totals of a list with both usages around a user message were shown.
C12_Witness ==
    /\ cost.rendered
    /\ cost.selected_model = "gpt-5-nano"
    /\ cost.messages = <<UsageMessage(10, 5, 1), UserMessage("hello"), UsageMessage(100, 50, 2)>>
    /\ cost.total_cost = 2750
    /\ cost.total_time = 3

(* ======================== properties of the chat ======================== *)

\* The text of a response: a message without content has the empty text.
ModelText(outcome) == IF outcome.hasContent THEN outcome.content ELSE << >>

EndsWithNotice(content) == content # << >> /\ SeqLast(content) = TRUNCATION_NOTICE

(* C13: after a turn whose model call succeeded, the assistant message      *)
(* appended to the conversation (and saved) has the text of the response    *)
(* followed by the truncation notice when finish_reason is "length", and    *)
(* the text of the response unchanged for every other finish_reason; so its *)
(* content ends with the notice iff finish_reason is "length"; it has role  *)
(* "assistant", is not the error template, and the call leaves the error    *)
(* banner as it was.                                                        *)
C13_TruncationNotice ==
    [][(last'.op = "turn" /\ last'.outcome = "ok")
        => LET outcome == call'.outcome
               reply == SeqLast(session'.messages)
           IN  /\ outcome.ok
               /\ reply.role = "assistant"
               /\ reply.content = IF outcome.finish_reason = "length"
                                  THEN ModelText(outcome) \o <<TRUNCATION_NOTICE>>
                                  ELSE ModelText(outcome)
               /\ EndsWithNotice(reply.content) <=> outcome.finish_reason = "length"
               /\ reply.content = << >> \/ reply.content[1] # "ERROR_TEMPLATE_HEAD"
               /\ reply.hasUsage
               /\ error_message' = error_message
               /\ SeqLast(store'.files[session'.conversation_id].data.messages) = reply]_vars

\* A response cut off at the length limit was appended with the notice.
C13_Witness ==
    /\ last.op = "turn"
    /\ last.outcome = "ok"
    /\ call.outcome.finish_reason = "length"
    /\ call.outcome.hasContent
    /\ SeqLast(session.messages).content = <<"answer", TRUNCATION_NOTICE>>

\* Role and content of each message, in order.
RoleContent(messages) ==
    [i \in DOMAIN messages |-> [role |-> messages[i].role, content |-> messages[i].content]]

(* C14: while a model call is pending, the request handed to the model     *)
(* client is one system message (the personality, followed by the preamble  *)
(* and the document text when a document was uploaded), then the last       *)
(* HISTORY_WINDOW messages the conversation held before this turn, in       *)
(* order and with role and content only, then one user message with the     *)
(* new text: one system message, the new user message once, as the last.    *)
C14_RequestShape ==
    pc = "awaiting"
        => LET request == call.request
               n == Len(session.messages)
               history == SubSeq(session.messages, 1, n - 1)
               system_content ==
                   IF uploaded_file_content # << >>
                   THEN <<session.chatbot_personality, DOCUMENT_PREAMBLE>>
                            \o uploaded_file_content
                   ELSE <<session.chatbot_personality>>
           IN  /\ request = <<[role |-> "system", content |-> system_content]>>
                            \o RoleContent(LastN(history, HISTORY_WINDOW))
                            \o <<[role |-> "user", content |-> session.messages[n].content]>>
               /\ Cardinality({i \in DOMAIN request : request[i].role = "system"}) = 1
               /\ Cardinality({i \in DOMAIN request : request[i].role = "user"})
                      = Cardinality({i \in DOMAIN session.messages :
                                         session.messages[i].role = "user"})

\* The messages of the persisted record of conversation id.
Persisted(s, id) == s.files[id].data.messages

(* C15: a user turn appends the user message and issues the model call,     *)
(* writing nothing; the assistant message is appended and the conversation  *)
(* saved only in the step that ends the call; and when the session ends     *)
(* while the call is pending, the persisted record of the conversation      *)
(* holds the history with the user message of the pending turn.             *)
C15_UserMessagePersisted ==
    [][/\ last'.op = "turn_start"
            => /\ pc = "idle" /\ pc' = "awaiting"
               /\ Len(session'.messages) = Len(session.messages) + 1
               /\ SeqLast(session'.messages).role = "user"
               /\ store' = store
       /\ (last'.op \in {"turn", "turn_failed"} /\ last'.outcome = "ok")
            => /\ pc = "awaiting" /\ pc' = "idle"
               /\ Len(session'.messages) = Len(session.messages) + 1
               /\ SeqLast(session'.messages).role = "assistant"
               /\ Persisted(store', session.conversation_id) = session'.messages
       /\ (pc = "awaiting" /\ last'.op = "session_end")
            => /\ store'.files[session.conversation_id].st = "ok"
               /\ Persisted(store', session.conversation_id) = session.messages
               /\ SeqLast(Persisted(store', session.conversation_id)).role = "user"]_vars

====
